---- MODULE Spec2Model ----
(***************************************************************************)
(* Model of redshift/resource_redshift_external_schema_data_catalog.go:    *)
(* the Terraform resource for a Redshift external schema backed by the     *)
(* Glue data catalog.                                                      *)
(*                                                                         *)
(* State: the warehouse's committed catalog (pg_namespace joined with      *)
(* svv_external_schemas, keyed by oid), the schema.ResourceData `d` of the *)
(* managed object, the statements the last handler issued, and the         *)
(* database/sql transaction the last Update opened.                        *)
(*                                                                         *)
(* Each handler is one action.  Inside a handler every statement is a step *)
(* operator over a call record m; a step is skipped once the handler has   *)
(* returned (m.res # "run").  A statement fails either because the         *)
(* warehouse rejects it (name taken, name unknown) or because the input    *)
(* `fault` names it (driver / connection error).                           *)
(***************************************************************************)
EXTENDS Integers, Sequences, FiniteSets, TLC

\* ---------------------------------------------------------------- bounds
MaxOid == 2                      \* number of oids the warehouse hands out

\* ------------------------------------------------------------- constants
SessionUser == 100               \* usesysid of the provider's login user

Oids   == 1..MaxOid
Names  == {"ext1", "ext2"}
Dbs    == {"gluedb"}
Roles  == {"arn_r"}
\* usesysids a configuration may name; 300 has no row in pg_user
Owners == {100, 200, 300}

\* ------------------------------------------------------------- warehouse
NoRow == [nspname |-> "", nspowner |-> 0, databasename |-> "", iam_role |-> ""]

Rows == [nspname : Names, nspowner : Owners, databasename : Dbs, iam_role : Roles]

\* oid of the namespace called name, 0 when there is none
OidOf(cat, name) ==
    IF \E o \in Oids : cat[o].nspname = name
    THEN CHOOSE o \in Oids : cat[o].nspname = name
    ELSE 0

\* GetUsersnamesForUsesysid: ids -> names, order preserving, 1:1; an id
\* without a principal yields no name
GetUsersnamesForUsesysid(ids) ==
    LET name(i) == IF i = 100 THEN "admin" ELSE IF i = 200 THEN "alice" ELSE ""
        RECURSIVE go(_)
        go(s) == IF s = <<>> THEN <<>>
                 ELSE IF name(Head(s)) = "" THEN go(Tail(s))
                 ELSE <<name(Head(s))>> \o go(Tail(s))
    IN go(ids)

\* usesysid of a principal name (ALTER SCHEMA .. OWNER TO name)
SysidOf(username) == IF username = "admin" THEN 100 ELSE 200

\* --------------------------------------------------------- ResourceData
\* d.Id() = 0 stands for the empty id; owner = 0 is Go's zero value (unset)
NewResourceData(id, name, owner, db, role, cascade) ==
    [id |-> id, schema_name |-> name, owner |-> owner, database_name |-> db,
     iam_role |-> role, cascade_on_delete |-> cascade]

EmptyData == NewResourceData(0, "", 0, "", "", FALSE)

\* variant: the owner is taken as supplied whatever its value
GetOk_Always(v) == TRUE

\* d.GetOk(key): ok is false for the zero value
GetOk(v) == v # 0

\* variant: every attribute is reported as changed
HasChange_Always(old, new, key) == TRUE

\* d.HasChange(key)
HasChange(old, new, key) == old[key] # new[key]

\* ----------------------------------------------------------- call record
NoTx == [begun |-> FALSE, commits |-> 0, rollbacks |-> 0]

Ev(ev, conn, name, arg, oid, ok) ==
    [ev |-> ev, conn |-> conn, name |-> name, arg |-> arg, oid |-> oid, ok |-> ok]

NewCall(d0, cat, nOid) ==
    [d |-> d0, cat |-> cat, txcat |-> cat, tx |-> NoTx, log |-> <<>>,
     nextOid |-> nOid, res |-> "run", ret |-> FALSE]

Issue(m, e) == [m EXCEPT !.log = Append(@, e)]

\* the catalog a connection sees: the transaction sees its own uncommitted
\* changes, the pool connection only what is committed
View(m, conn) == IF conn = "tx" THEN m.txcat ELSE m.cat

Apply(m, conn, cat) ==
    IF conn = "tx" THEN [m EXCEPT !.txcat = cat]
    ELSE [m EXCEPT !.cat = cat, !.txcat = cat]

Finish(m) == IF m.res = "run" THEN [m EXCEPT !.res = "ok"] ELSE m

\* ------------------------------------------------------------ statements
\* variant: the error of the creation statement is dropped and Create goes on
createStatement_IgnoresError(m, fault) ==
    IF m.res # "run" THEN m
    ELSE LET name == m.d.schema_name
             ok   == fault # "CREATE" /\ OidOf(m.cat, name) = 0
             row  == [nspname |-> name, nspowner |-> SessionUser,
                      databasename |-> m.d.database_name, iam_role |-> m.d.iam_role]
             m1   == Issue(m, Ev("CREATE", "db", name, "", 0, ok))
         IN IF ok
            THEN [Apply(m1, "db", [m.cat EXCEPT ![m.nextOid] = row])
                    EXCEPT !.nextOid = m.nextOid + 1]
            ELSE m1

\* CREATE EXTERNAL SCHEMA name FROM DATA CATALOG DATABASE 'db' IAM_ROLE 'role'
\* on the pool connection; an error returns from Create at once
createStatement(m, fault) ==
    IF m.res # "run" THEN m
    ELSE LET name == m.d.schema_name
             ok   == fault # "CREATE" /\ OidOf(m.cat, name) = 0
             row  == [nspname |-> name, nspowner |-> SessionUser,
                      databasename |-> m.d.database_name, iam_role |-> m.d.iam_role]
             m1   == Issue(m, Ev("CREATE", "db", name, "", 0, ok))
         IN IF ok
            THEN [Apply(m1, "db", [m.cat EXCEPT ![m.nextOid] = row])
                    EXCEPT !.nextOid = m.nextOid + 1]
            ELSE [m1 EXCEPT !.res = "error"]

\* time.Sleep(5 * time.Second)
propagationSleep(m) ==
    IF m.res # "run" THEN m ELSE Issue(m, Ev("SLEEP", "", "", "", 0, TRUE))

\* updateDataCatalogSchemaOwner(d, q): look the principal up, then
\* ALTER SCHEMA <d.schema_name> OWNER TO <username[0]> on q
updateDataCatalogSchemaOwner(m, conn, fault) ==
    IF m.res # "run" THEN m
    ELSE LET username == GetUsersnamesForUsesysid(<<m.d.owner>>)
             m1       == Issue(m, Ev("LOOKUP_USER", conn, "", "", m.d.owner, username # <<>>))
         IN IF username = <<>>
            THEN [m1 EXCEPT !.res = "panic"]          \* username[0]: index out of range
            ELSE LET name == m.d.schema_name
                     o    == OidOf(View(m, conn), name)
                     ok   == fault # "ALTER_OWNER" /\ o # 0
                     m2   == Issue(m1, Ev("ALTER_OWNER", conn, name, username[1], 0, ok))
                 IN IF ok
                    THEN Apply(m2, conn,
                               [View(m, conn) EXCEPT ![o].nspowner = SysidOf(username[1])])
                    ELSE [m2 EXCEPT !.res = "error"]

\* variant: the id is taken from the newest namespace instead of by name
resolveOid_Latest(m, fault) ==
    IF m.res # "run" THEN m
    ELSE LET name == m.d.schema_name
             o    == m.nextOid - 1
             ok   == fault # "SELECT_OID" /\ o # 0
             m1   == Issue(m, Ev("SELECT_OID", "db", name, "", o, ok))
         IN IF ok
            THEN [Issue(m1, Ev("SET_ID", "", "", "", o, TRUE)) EXCEPT !.d.id = o]
            ELSE [m1 EXCEPT !.res = "error"]

\* SELECT oid FROM pg_namespace WHERE nspname = $1, then d.SetId(oid)
resolveOid(m, fault) ==
    IF m.res # "run" THEN m
    ELSE LET name == m.d.schema_name
             o    == OidOf(m.cat, name)
             ok   == fault # "SELECT_OID" /\ o # 0
             m1   == Issue(m, Ev("SELECT_OID", "db", name, "", o, ok))
         IN IF ok
            THEN [Issue(m1, Ev("SET_ID", "", "", "", o, TRUE)) EXCEPT !.d.id = o]
            ELSE [m1 EXCEPT !.res = "error"]

\* variant: the scanned values are stored before the error is looked at
readDataCatalogSchema_SetsOnError(m, fault) ==
    IF m.res # "run" THEN m
    ELSE LET row == IF m.d.id \in Oids THEN m.cat[m.d.id] ELSE NoRow
             ok  == fault # "READ" /\ row # NoRow
             got == IF ok THEN row ELSE NoRow
             m1  == [Issue(m, Ev("READ", "db", "", "", m.d.id, ok))
                       EXCEPT !.d.schema_name   = got.nspname,
                              !.d.owner         = got.nspowner,
                              !.d.database_name = got.databasename,
                              !.d.iam_role      = got.iam_role]
         IN IF ok THEN m1 ELSE [m1 EXCEPT !.res = "error"]

\* variant: the read-back leaves the owner attribute alone
readDataCatalogSchema_KeepsOwner(m, fault) ==
    IF m.res # "run" THEN m
    ELSE LET row == IF m.d.id \in Oids THEN m.cat[m.d.id] ELSE NoRow
             ok  == fault # "READ" /\ row # NoRow
             m1  == Issue(m, Ev("READ", "db", "", "", m.d.id, ok))
         IN IF ok
            THEN [m1 EXCEPT !.d.schema_name   = row.nspname,
                            !.d.database_name = row.databasename,
                            !.d.iam_role      = row.iam_role]
            ELSE [m1 EXCEPT !.res = "error"]

\* readDataCatalogSchema(d, db): the join by oid on the pool connection;
\* on success the four attributes are overwritten with the row's values
readDataCatalogSchema(m, fault) ==
    IF m.res # "run" THEN m
    ELSE LET row == IF m.d.id \in Oids THEN m.cat[m.d.id] ELSE NoRow
             ok  == fault # "READ" /\ row # NoRow
             m1  == Issue(m, Ev("READ", "db", "", "", m.d.id, ok))
         IN IF ok
            THEN [m1 EXCEPT !.d.schema_name   = row.nspname,
                            !.d.owner         = row.nspowner,
                            !.d.database_name = row.databasename,
                            !.d.iam_role      = row.iam_role]
            ELSE [m1 EXCEPT !.res = "error"]

\* ----------------------------------------------------------------- Create
resourceDataCatalogSchemaCreate(d0, cat, nOid, fault) ==
    LET m1 == createStatement(NewCall(d0, cat, nOid), fault)
        m2 == propagationSleep(m1)
        m3 == IF GetOk(m2.d.owner)
              THEN updateDataCatalogSchemaOwner(m2, "db", fault)
              ELSE m2
        m4 == resolveOid(m3, fault)
        m5 == readDataCatalogSchema(m4, fault)
    IN Finish(m5)

\* ------------------------------------------------------------------- Read
resourceDataCatalogSchemaRead(d0, cat, nOid, fault) ==
    Finish(readDataCatalogSchema(NewCall(d0, cat, nOid), fault))

\* resourceDataCatalogSchemaImport: Read, then the one-element result list
resourceDataCatalogSchemaImport(d0, cat, nOid, fault) ==
    resourceDataCatalogSchemaRead(d0, cat, nOid, fault)

\* ----------------------------------------------------------------- Exists
\* variant: sql.ErrNoRows is returned as an error like any other
resourceDataCatalogSchemaExists_NoRowsIsError(d0, cat, nOid, fault) ==
    LET m    == NewCall(d0, cat, nOid)
        rows == d0.id \in Oids /\ cat[d0.id] # NoRow
        m1   == Issue(m, Ev("EXISTS", "db", "", "", d0.id, fault # "EXISTS"))
    IN IF fault = "EXISTS" \/ ~rows
       THEN [m1 EXCEPT !.res = "error", !.ret = FALSE]
       ELSE [m1 EXCEPT !.res = "ok", !.ret = TRUE]

\* SELECT nspname FROM pg_namespace WHERE oid = $1
resourceDataCatalogSchemaExists(d0, cat, nOid, fault) ==
    LET m    == NewCall(d0, cat, nOid)
        rows == d0.id \in Oids /\ cat[d0.id] # NoRow
        m1   == Issue(m, Ev("EXISTS", "db", "", "", d0.id, fault # "EXISTS"))
    IN IF fault = "EXISTS" THEN [m1 EXCEPT !.res = "error", !.ret = FALSE]
       ELSE IF ~rows       THEN [m1 EXCEPT !.res = "ok", !.ret = FALSE]   \* sql.ErrNoRows
       ELSE                     [m1 EXCEPT !.res = "ok", !.ret = TRUE]

\* ----------------------------------------------------------------- Update
\* redshiftClient.Begin(); a failure panics
beginTx(m, fault) ==
    IF fault = "BEGIN"
    THEN [Issue(m, Ev("BEGIN", "db", "", "", 0, FALSE)) EXCEPT !.res = "panic"]
    ELSE [Issue(m, Ev("BEGIN", "db", "", "", 0, TRUE))
            EXCEPT !.tx.begun = TRUE, !.txcat = m.cat]

\* ALTER SCHEMA <oldName> RENAME TO <newName> on tx; an error returns at once
alterSchemaNameQuery(m, old, fault) ==
    IF m.res # "run" THEN m
    ELSE LET oldName == old.schema_name
             newName == m.d.schema_name
             o       == OidOf(m.txcat, oldName)
             ok      == fault # "RENAME" /\ o # 0 /\ OidOf(m.txcat, newName) = 0
             m1      == Issue(m, Ev("RENAME", "tx", oldName, newName, 0, ok))
         IN IF ok
            THEN Apply(m1, "tx", [m.txcat EXCEPT ![o].nspname = newName])
            ELSE [m1 EXCEPT !.res = "error"]

\* variant: the owner is changed before the schema is renamed
updateMutations_OwnerFirst(m, old, fault) ==
    LET m1 == IF HasChange(old, m.d, "owner")
              THEN updateDataCatalogSchemaOwner(m, "tx", fault)
              ELSE m
        m2 == IF HasChange(old, m1.d, "schema_name")
              THEN alterSchemaNameQuery(m1, old, fault)
              ELSE m1
    IN m2

\* the two guarded mutations, rename first
updateMutations(m, old, fault) ==
    LET m1 == IF HasChange(old, m.d, "schema_name")
              THEN alterSchemaNameQuery(m, old, fault)
              ELSE m
        m2 == IF HasChange(old, m1.d, "owner")
              THEN updateDataCatalogSchemaOwner(m1, "tx", fault)
              ELSE m1
    IN m2

\* variant: the failure branch commits
txRollback_Commits(m) ==
    [Issue(m, Ev("COMMIT", "tx", "", "", 0, TRUE))
       EXCEPT !.tx.commits = @ + 1, !.cat = m.txcat]

\* tx.Rollback(): the uncommitted changes are dropped; its error is ignored
txRollback(m) ==
    [Issue(m, Ev("ROLLBACK", "tx", "", "", 0, TRUE))
       EXCEPT !.tx.rollbacks = @ + 1, !.txcat = m.cat]

\* tx.Commit(): the transaction's changes become the committed catalog,
\* unless the commit fails; its error is ignored
txCommit(m, fault) ==
    LET ok == fault # "COMMIT"
        m1 == [Issue(m, Ev("COMMIT", "tx", "", "", 0, ok)) EXCEPT !.tx.commits = @ + 1]
    IN IF ok THEN [m1 EXCEPT !.cat = m.txcat] ELSE [m1 EXCEPT !.txcat = m.cat]

\* read back on the pool connection, roll back if that fails, else commit
readBackAndCommit(m, fault) ==
    IF m.res # "run" THEN m
    ELSE LET r == readDataCatalogSchema(m, fault)
         IN IF r.res = "error" THEN txRollback(r) ELSE txCommit(r, fault)

resourceDataCatalogSchemaUpdate(old, d0, cat, nOid, fault) ==
    LET m1 == beginTx(NewCall(d0, cat, nOid), fault)
        m2 == updateMutations(m1, old, fault)
        m3 == readBackAndCommit(m2, fault)
    IN Finish(m3)

\* ----------------------------------------------------------------- Delete
\* variant: the cascade clause is never appended
dropSchemaQuery_NeverCascade(d0) ==
    [name |-> d0.schema_name, cascade |-> FALSE]

\* "DROP SCHEMA " + schema_name, plus " CASCADE " when cascade_on_delete
dropSchemaQuery(d0) ==
    [name |-> d0.schema_name, cascade |-> d0.cascade_on_delete]

\* variant: Delete clears the id once the schema is dropped
resourceDataCatalogSchemaDelete_ClearsId(d0, cat, nOid, fault) ==
    LET m  == NewCall(d0, cat, nOid)
        q  == dropSchemaQuery(d0)
        o  == OidOf(cat, q.name)
        ok == fault # "DROP" /\ o # 0
        m1 == Issue(m, Ev("DROP", "db", q.name, IF q.cascade THEN "CASCADE" ELSE "", 0, ok))
    IN IF ok
       THEN [Finish(Apply(m1, "db", [cat EXCEPT ![o] = NoRow])) EXCEPT !.d.id = 0]
       ELSE [m1 EXCEPT !.res = "error"]

resourceDataCatalogSchemaDelete(d0, cat, nOid, fault) ==
    LET m  == NewCall(d0, cat, nOid)
        q  == dropSchemaQuery(d0)
        o  == OidOf(cat, q.name)
        ok == fault # "DROP" /\ o # 0
        m1 == Issue(m, Ev("DROP", "db", q.name, IF q.cascade THEN "CASCADE" ELSE "", 0, ok))
    IN IF ok
       THEN Finish(Apply(m1, "db", [cat EXCEPT ![o] = NoRow]))
       ELSE [m1 EXCEPT !.res = "error"]

\* ------------------------------------------------------------------ state
VARIABLES
    catalog,    \* committed pg_namespace |x| svv_external_schemas, by oid
    nextOid,    \* the oid the next CREATE gets
    d,          \* the ResourceData as the last handler left it
    tracked,    \* the framework holds state for the object
    tx,         \* the transaction of the last handler call
    log,        \* the statements the last handler issued, in order
    last,       \* the last call: handler, outcome, data at entry, catalog at entry
    run         \* per object: the handler call in flight when the host runs
                \* several objects at once (used by SpecConc only)

vars == <<catalog, nextOid, d, tracked, tx, log, last, run>>

Call(op, m, prior, d0) ==
    [op |-> op, res |-> m.res, ret |-> m.ret, prior |-> prior, entry |-> d0,
     preCat |-> catalog]

NoCall ==
    [op |-> "none", res |-> "ok", ret |-> FALSE, prior |-> EmptyData,
     entry |-> EmptyData, preCat |-> [o \in Oids |-> NoRow]]

Init ==
    /\ catalog = [o \in Oids |-> NoRow]
    /\ nextOid = 1
    /\ d = EmptyData
    /\ tracked = FALSE
    /\ tx = NoTx
    /\ log = <<>>
    /\ last = NoCall
    /\ run = <<>>

\* a fault is an input only of a call that issues the statement it names
Issued(m, fault) ==
    fault = "none" \/ \E i \in 1..Len(m.log) : m.log[i].ev = fault

\* what every handler call leaves behind in the warehouse and the call log
Returned(m) ==
    /\ UNCHANGED run
    /\ catalog' = m.cat
    /\ nextOid' = m.nextOid
    /\ tx' = m.tx
    /\ log' = m.log

\* Create: a new ResourceData holding the configuration; the framework keeps
\* the result iff it carries an id and the provider did not crash
Create ==
    /\ ~tracked
    /\ nextOid <= MaxOid
    /\ \E name \in Names, owner \in Owners \cup {0}, db \in Dbs, role \in Roles,
          cascade \in BOOLEAN,
          fault \in {"none", "CREATE", "ALTER_OWNER", "SELECT_OID", "READ"} :
          LET d0 == NewResourceData(0, name, owner, db, role, cascade)
          IN \E m \in {resourceDataCatalogSchemaCreate(d0, catalog, nextOid, fault)} :
             /\ Issued(m, fault)
             /\ Returned(m)
             /\ d' = m.d
             /\ tracked' = (m.d.id # 0 /\ m.res # "panic")
             /\ last' = Call("Create", m, d, d0)

Read ==
    /\ tracked
    /\ \E fault \in {"none", "READ"} :
          \E m \in {resourceDataCatalogSchemaRead(d, catalog, nextOid, fault)} :
             /\ Returned(m)
             /\ d' = m.d
             /\ tracked' = tracked
             /\ last' = Call("Read", m, d, d)

\* Import: the operator supplies a bare id
Import ==
    /\ ~tracked
    /\ \E id \in Oids, fault \in {"none", "READ"} :
          LET d0 == [EmptyData EXCEPT !.id = id]
          IN \E m \in {resourceDataCatalogSchemaImport(d0, catalog, nextOid, fault)} :
             /\ Returned(m)
             /\ d' = m.d
             /\ tracked' = (m.res = "ok")
             /\ last' = Call("Import", m, d, d0)

\* Exists: on false the framework drops the object from its state
Exists ==
    /\ tracked
    /\ \E fault \in {"none", "EXISTS"} :
          \E m \in {resourceDataCatalogSchemaExists(d, catalog, nextOid, fault)} :
             /\ Returned(m)
             /\ d' = m.d
             /\ tracked' = (m.res = "ok" => m.ret)
             /\ last' = Call("Exists", m, d, d)

\* Update: the framework calls it with a diff on schema_name, owner or
\* cascade_on_delete (database_name and iam_role are ForceNew); on an error
\* return the ResourceData, diff included, is what the framework keeps; a
\* panic keeps the prior state
Update ==
    /\ tracked
    /\ \E name \in Names, owner \in Owners \cup {d.owner}, cascade \in BOOLEAN,
          fault \in {"none", "BEGIN", "RENAME", "ALTER_OWNER", "READ", "COMMIT"} :
          LET d0 == [d EXCEPT !.schema_name = name, !.owner = owner,
                              !.cascade_on_delete = cascade]
          IN \E m \in {resourceDataCatalogSchemaUpdate(d, d0, catalog, nextOid, fault)} :
             /\ d0 # d
             /\ Issued(m, fault)
             /\ Returned(m)
             /\ d' = IF m.res = "panic" THEN d ELSE m.d
             /\ tracked' = tracked
             /\ last' = Call("Update", m, d, d0)

Delete ==
    /\ tracked
    /\ \E fault \in {"none", "DROP"} :
          \E m \in {resourceDataCatalogSchemaDelete(d, catalog, nextOid, fault)} :
             /\ Returned(m)
             /\ d' = m.d
             /\ tracked' = (m.res # "ok")
             /\ last' = Call("Delete", m, d, d)

\* the schema is dropped by someone else (the sql.ErrNoRows case of Exists)
OutOfBandDrop ==
    /\ \E o \in Oids :
          /\ catalog[o] # NoRow
          /\ catalog' = [catalog EXCEPT ![o] = NoRow]
    /\ last' = [NoCall EXCEPT !.op = "OutOfBand"]
    /\ tx' = NoTx
    /\ log' = <<>>
    /\ UNCHANGED <<nextOid, d, tracked, run>>

Next ==
    \/ Create
    \/ Read
    \/ Import
    \/ Exists
    \/ Update
    \/ Delete
    \/ OutOfBandDrop

Spec == Init /\ [][Next]_vars

TypeOK ==
    /\ catalog \in [Oids -> Rows \cup {NoRow}]
    /\ nextOid \in 1..(MaxOid + 1)
    /\ tracked \in BOOLEAN
    /\ d.id \in Oids \cup {0}

\* ------------------------------------------------------- reading the log
LogEvs == [i \in 1..Len(log) |-> log[i].ev]

HasEv(e) == \E i \in 1..Len(log) : log[i].ev = e

EvOk(e) == \E i \in 1..Len(log) : log[i].ev = e /\ log[i].ok

EvFailed(e) == \E i \in 1..Len(log) : log[i].ev = e /\ ~log[i].ok

IsPrefix(s, t) == Len(s) <= Len(t) /\ \A i \in 1..Len(s) : s[i] = t[i]

\* what a Read issued now, without faults, would leave in the ResourceData
FreshRead == resourceDataCatalogSchemaRead(d, catalog, nextOid, "none")

Attrs(r) == <<r.schema_name, r.owner, r.database_name, r.iam_role>>

NameChanged == HasChange(last.prior, last.entry, "schema_name")

OwnerChanged == HasChange(last.prior, last.entry, "owner")

\* ------------------------------------------------------------------ C1
\* C1: when the read-back inside Update fails, Update rolls the transaction
\* back (and does not commit it) before it returns its error, the committed
\* catalog is what it was before the Update, and a following Read shows the
\* pre-Update name and owner.
C1_RollbackOnReadBackFailure ==
    (last.op = "Update" /\ EvFailed("READ")) =>
        /\ last.res = "error"
        /\ tx.rollbacks = 1 /\ tx.commits = 0
        /\ log[Len(log)].ev = "ROLLBACK"
        /\ catalog = last.preCat
        /\ FreshRead.res = "ok" =>
              /\ FreshRead.d.schema_name = last.preCat[d.id].nspname
              /\ FreshRead.d.owner = last.preCat[d.id].nspowner

\* an Update renamed the schema inside its transaction, its read-back then
\* failed, and the schema is still there to be read
C1_Witness ==
    /\ last.op = "Update" /\ EvOk("RENAME") /\ EvFailed("READ")
    /\ FreshRead.res = "ok"
    /\ FreshRead.d.schema_name # last.entry.schema_name

\* ------------------------------------------------------------------ C2
\* C2: after every successful Update that changed the name or the owner,
\* the locally held schema_name, owner, database_name and iam_role equal
\* what a fresh Read of the same identifier produces.
C2_ReadAfterWrite ==
    (last.op = "Update" /\ last.res = "ok" /\ (NameChanged \/ OwnerChanged)) =>
        /\ FreshRead.res = "ok"
        /\ Attrs(FreshRead.d) = Attrs(d)

\* ------------------------------------------------------------------ C3
\* C3: in an Update that changes both name and owner, the ownership
\* transfer is issued on the transaction against the new name, after the
\* successful rename old->new and the owner-name lookup and before any
\* commit; a successful Update issued exactly begin, rename, lookup,
\* reown, read-back, commit.
C3_RenameBeforeReown ==
    (last.op = "Update" /\ NameChanged /\ OwnerChanged) =>
        /\ \A i \in 1..Len(log) : log[i].ev = "ALTER_OWNER" =>
              /\ log[i].conn = "tx"
              /\ log[i].name = last.entry.schema_name
              /\ log[i].name # last.prior.schema_name
              /\ i > 2
              /\ log[i-1].ev = "LOOKUP_USER" /\ log[i-1].oid = last.entry.owner
              /\ log[i-2] = Ev("RENAME", "tx", last.prior.schema_name,
                               last.entry.schema_name, 0, TRUE)
              /\ \A k \in 1..i : log[k].ev # "COMMIT"
        /\ last.res = "ok" =>
              LogEvs = <<"BEGIN", "RENAME", "LOOKUP_USER", "ALTER_OWNER", "READ", "COMMIT">>

\* an Update changed both and both statements went through and were committed
C3_Witness ==
    /\ last.op = "Update" /\ NameChanged /\ OwnerChanged
    /\ EvOk("RENAME") /\ EvOk("ALTER_OWNER") /\ EvOk("COMMIT")
    /\ last.res = "ok"

\* ------------------------------------------------------------------ C4
\* C4: Read, Exists, Update, Import and Delete leave the identifier as it
\* was when the handler was entered; Create assigns it at most once, to the
\* oid it resolved.
C4_IdentifierImmutable ==
    /\ last.op \in {"Read", "Exists", "Update", "Import", "Delete"} =>
          d.id = last.entry.id
    /\ last.op = "Create" =>
          /\ Cardinality({i \in 1..Len(log) : log[i].ev = "SET_ID"}) <= 1
          /\ \A i \in 1..Len(log) : log[i].ev = "SET_ID" => d.id = log[i].oid
          /\ ~HasEv("SET_ID") => d.id = 0

\* a renaming Update went through on an object that holds an identifier
C4_Witness ==
    /\ last.op = "Update" /\ last.res = "ok" /\ EvOk("RENAME") /\ EvOk("COMMIT")
    /\ d.id \in Oids

\* ------------------------------------------------------------------ C5
\* C5: whenever Update returns, with success or with an error, the
\* transaction it opened has been committed or rolled back, exactly one of
\* the two.
C5_TxReleasedOnEveryReturn ==
    (last.op = "Update" /\ last.res \in {"ok", "error"}) =>
        tx.commits + tx.rollbacks = 1

\* ------------------------------------------------------------------ C6
\* C6: after a successful Create every locally held attribute equals the
\* catalog row of the newly assigned identifier; an owner left unset holds
\* the session user afterwards.
C6_CreateServerWins ==
    (last.op = "Create" /\ last.res = "ok") =>
        /\ d.id \in Oids
        /\ catalog[d.id] # NoRow
        /\ d.schema_name   = catalog[d.id].nspname
        /\ d.owner         = catalog[d.id].nspowner
        /\ d.database_name = catalog[d.id].databasename
        /\ d.iam_role      = catalog[d.id].iam_role
        /\ ~GetOk(last.entry.owner) => d.owner = SessionUser

\* a Create without owner succeeded and the owner held now is not the one
\* submitted
C6_Witness ==
    /\ last.op = "Create" /\ last.res = "ok"
    /\ last.entry.owner = 0
    /\ d.owner = SessionUser

\* ------------------------------------------------------------------ C7
\* C7: when the existence query is answered, Exists returns without error,
\* false if the identifier has no row and true if it has one; it issues the
\* one query only and changes neither the catalog nor the ResourceData.
C7_ExistsFalseOnNoRow ==
    last.op = "Exists" =>
        /\ LogEvs = <<"EXISTS">>
        /\ log[1].ok =>
              /\ last.res = "ok"
              /\ last.ret = (catalog[d.id] # NoRow)
        /\ d = last.entry
        /\ catalog = last.preCat

\* Exists ran on an identifier whose row is gone
C7_Witness ==
    /\ last.op = "Exists" /\ last.res = "ok" /\ ~last.ret
    /\ catalog[d.id] = NoRow

\* ------------------------------------------------------------------ C8
\* C8: Delete issues exactly one statement, the drop of the locally held
\* schema_name, with the cascade clause iff cascade_on_delete is set.
C8_DeleteOneDrop ==
    last.op = "Delete" =>
        /\ Len(log) = 1
        /\ log[1].ev = "DROP"
        /\ log[1].name = last.entry.schema_name
        /\ log[1].arg = (IF last.entry.cascade_on_delete THEN "CASCADE" ELSE "")

\* a Delete with cascade_on_delete set dropped the schema
C8_Witness ==
    /\ last.op = "Delete" /\ last.res = "ok"
    /\ last.entry.cascade_on_delete
    /\ log[1].arg = "CASCADE"

\* ------------------------------------------------------------------ C9
\* C9: Create issues creation statement, propagation wait, ownership
\* transfer (lookup and reown against the created name, only when an owner
\* was supplied), identifier lookup by name, identifier assignment and
\* read-back, in this order and up to the first failure; a successful
\* Create issued them all.
CreateOrder(owner) ==
    <<"CREATE", "SLEEP">>
    \o (IF owner # 0 THEN <<"LOOKUP_USER", "ALTER_OWNER">> ELSE <<>>)
    \o <<"SELECT_OID", "SET_ID", "READ">>

C9_CreateStepOrder ==
    last.op = "Create" =>
        /\ IsPrefix(LogEvs, CreateOrder(last.entry.owner))
        /\ last.res = "ok" => LogEvs = CreateOrder(last.entry.owner)
        /\ \A i \in 1..Len(log) : log[i].ev = "ALTER_OWNER" =>
              log[i].name = last.entry.schema_name /\ log[i].conn = "db"
        /\ \A i \in 1..Len(log) : log[i].ev = "SET_ID" =>
              /\ log[1].ev = "CREATE" /\ log[1].ok
              /\ \A k \in 1..i : log[k].ev # "READ"
        /\ d.id # 0 <=> HasEv("SET_ID")

\* a Create with an owner went through all its steps
C9_Witness ==
    /\ last.op = "Create" /\ last.res = "ok"
    /\ last.entry.owner # 0
    /\ Len(log) = 7

\* ----------------------------------------------------------------- C10
\* C10: when the creation statement fails, Create returns an error, holds
\* no identifier, has issued nothing after the creation statement, and
\* leaves the ResourceData and the catalog as they were.
C10_CreateFailureStops ==
    (last.op = "Create" /\ EvFailed("CREATE")) =>
        /\ last.res = "error"
        /\ d.id = 0
        /\ Len(log) = 1
        /\ d = last.entry
        /\ ~tracked
        /\ catalog = last.preCat

\* a creation statement failed
C10_Witness ==
    /\ last.op = "Create" /\ EvFailed("CREATE")
    /\ last.res = "error"

\* ----------------------------------------------------------------- C11
\* C11: an Update issues a rename only if schema_name changed and a reown
\* (with its lookup) only if owner changed; once the transaction is open a
\* changed name is renamed, and a changed owner is transferred unless the
\* rename before it failed; an Update that reached its read-back issued
\* the rename iff the name changed and the reown iff the owner changed; no
\* statement alters database_name or iam_role of any schema; with neither
\* change Update only begins, reads back and commits (or rolls back when
\* the read-back fails).
C11_MinimalMutations ==
    last.op = "Update" =>
        LET nameDiff  == last.prior.schema_name # last.entry.schema_name
            ownerDiff == last.prior.owner # last.entry.owner
        IN /\ HasEv("RENAME") => nameDiff
           /\ (HasEv("LOOKUP_USER") \/ HasEv("ALTER_OWNER")) => ownerDiff
           /\ (EvOk("BEGIN") /\ nameDiff) => HasEv("RENAME")
           /\ (EvOk("BEGIN") /\ ownerDiff /\ ~EvFailed("RENAME")) => HasEv("LOOKUP_USER")
           /\ HasEv("READ") =>
                 /\ HasEv("RENAME") <=> nameDiff
                 /\ HasEv("ALTER_OWNER") <=> ownerDiff
           /\ \A i \in 1..Len(log) :
                 log[i].ev \in {"BEGIN", "RENAME", "LOOKUP_USER", "ALTER_OWNER",
                                "READ", "COMMIT", "ROLLBACK"}
           /\ \A o \in Oids :
                 /\ catalog[o].databasename = last.preCat[o].databasename
                 /\ catalog[o].iam_role = last.preCat[o].iam_role
           /\ (EvOk("BEGIN") /\ ~nameDiff /\ ~ownerDiff) =>
                 LogEvs \in {<<"BEGIN", "READ", "COMMIT">>, <<"BEGIN", "READ", "ROLLBACK">>}

\* an Update that changed cascade_on_delete only went through
C11_Witness ==
    /\ last.op = "Update" /\ last.res = "ok"
    /\ last.prior.schema_name = last.entry.schema_name
    /\ last.prior.owner = last.entry.owner
    /\ LogEvs = <<"BEGIN", "READ", "COMMIT">>

\* ----------------------------------------------------------------- C12
\* C12: when the owner lookup yields no principal name the handler returns
\* an error and issues no ownership transfer, and when the ALTER statement
\* fails it returns an error; it never terminates abnormally.
C12_OwnerResolutionReturnsError ==
    /\ EvFailed("LOOKUP_USER") => (last.res = "error" /\ ~HasEv("ALTER_OWNER"))
    /\ EvFailed("ALTER_OWNER") => last.res = "error"

\* ----------------------------------------------------------------- C13
\* C13: when beginning the transaction fails, Update returns an error, has
\* issued no rename and no reown, and leaves the catalog and the local
\* attributes as they were.
C13_BeginFailureReturnsError ==
    (last.op = "Update" /\ EvFailed("BEGIN")) =>
        /\ last.res = "error"
        /\ ~HasEv("RENAME") /\ ~HasEv("ALTER_OWNER")
        /\ catalog = last.preCat
        /\ d = last.prior

\* ----------------------------------------------------------------- C14
\* C14: Read and Import issue the one catalog query and change nothing in
\* the warehouse; on an identifier without a row they return an error and
\* leave the ResourceData as it was; on success schema_name, owner,
\* database_name and iam_role hold the row's values, the identifier and
\* cascade_on_delete are kept.
C14_ReadFrame ==
    last.op \in {"Read", "Import"} =>
        /\ LogEvs = <<"READ">>
        /\ catalog = last.preCat
        /\ catalog[d.id] = NoRow => last.res = "error"
        /\ last.res = "error" => d = last.entry
        /\ last.res = "ok" =>
              /\ d.schema_name   = catalog[d.id].nspname
              /\ d.owner         = catalog[d.id].nspowner
              /\ d.database_name = catalog[d.id].databasename
              /\ d.iam_role      = catalog[d.id].iam_role
              /\ d.id = last.entry.id
              /\ d.cascade_on_delete = last.entry.cascade_on_delete

\* a Read found no row for an object whose attributes are held locally
C14_Witness ==
    /\ last.op = "Read" /\ last.res = "error"
    /\ catalog[d.id] = NoRow
    /\ d.schema_name \in Names

\* ----------------------------------------------------------------- C16
\* C16: whenever the creation statement succeeded, Create returns (with
\* success or with an error) holding the identifier.
C16_IdAssignedOnceCreated ==
    (last.op = "Create" /\ EvOk("CREATE") /\ last.res \in {"ok", "error"}) =>
        d.id # 0

\* ----------------------------------------------------------------- C17
\* C17: an Update that returns success has committed its transaction, and
\* the rename and reown it issued are in the committed catalog.
C17_SuccessMeansCommitted ==
    (last.op = "Update" /\ last.res = "ok") =>
        /\ EvOk("COMMIT")
        /\ EvOk("RENAME") => catalog[d.id].nspname = last.entry.schema_name
        /\ EvOk("ALTER_OWNER") => catalog[d.id].nspowner = last.entry.owner

\* ----------------------------------------------------------------- C18
\* C18: after a successful Create or Update the locally held schema_name
\* is the name the catalog holds for the identifier, and a successful
\* Delete leaves the identifier without a row.
C18_LocalNameIsServerName ==
    /\ (last.op \in {"Create", "Update"} /\ last.res = "ok") =>
          d.schema_name = catalog[d.id].nspname
    /\ (last.op = "Delete" /\ last.res = "ok") =>
          catalog[d.id] = NoRow

\* ----------------------------------------------------------------- C15
\* Several objects reconciled at once.  The host runs at most one handler
\* per object; the handlers of different objects interleave statement by
\* statement on the one warehouse (catalog, nextOid).  Every object has its
\* own names.  An open transaction sees the committed catalog plus its own
\* uncommitted rows (pend).  Beside each object runs sh, the same calls with
\* the same inputs executed one at a time on a warehouse of its own.
MaxCalls == 3                    \* handler calls the host makes in all

Objects == {"A", "B"}

ObjNames == [o \in Objects |-> IF o = "A" THEN {"ext1", "ext2"} ELSE {"ext3", "ext4"}]

ConcOwners == {0, 200}

ConcFaults == {"none", "ALTER_OWNER", "READ"}

EmptyCat == [o \in Oids |-> NoRow]

Same == [nspname |-> "=", nspowner |-> 0, databasename |-> "", iam_role |-> ""]

NoPend == [o \in Oids |-> Same]

Overlay(cat, pend) == [o \in Oids |-> IF pend[o] = Same THEN cat[o] ELSE pend[o]]

Pending(txcat, cat) == [o \in Oids |-> IF txcat[o] = cat[o] THEN Same ELSE txcat[o]]

\* the call record between two statements, without the warehouse's part
Strip(m) == [m EXCEPT !.cat = EmptyCat, !.txcat = EmptyCat, !.nextOid = 1]

IdleCall == Strip(NewCall(EmptyData, EmptyCat, 1))

Alone == [cat |-> EmptyCat, nextOid |-> 1, d |-> EmptyData, tracked |-> FALSE, res |-> "ok"]

IdleObject ==
    [d |-> EmptyData, tracked |-> FALSE, res |-> "ok", calls |-> 0, pc |-> 0, op |-> "",
     old |-> EmptyData, fault |-> "none", m |-> IdleCall, pend |-> NoPend,
     sh |-> Alone]

\* number of statements of a handler
NSteps(op) == IF op = "Delete" THEN 1 ELSE 5

\* the pc-th statement of handler op
Statement(op, pc, m, old, fault) ==
    CASE op = "Create" /\ pc = 1 -> createStatement(m, fault)
      [] op = "Create" /\ pc = 2 -> propagationSleep(m)
      [] op = "Create" /\ pc = 3 ->
            IF GetOk(m.d.owner) THEN updateDataCatalogSchemaOwner(m, "db", fault) ELSE m
      [] op = "Create" /\ pc = 4 -> resolveOid(m, fault)
      [] op = "Create" /\ pc = 5 -> Finish(readDataCatalogSchema(m, fault))
      [] op = "Update" /\ pc = 1 -> beginTx(m, fault)
      [] op = "Update" /\ pc = 2 ->
            IF HasChange(old, m.d, "schema_name") THEN alterSchemaNameQuery(m, old, fault) ELSE m
      [] op = "Update" /\ pc = 3 ->
            IF HasChange(old, m.d, "owner")
            THEN updateDataCatalogSchemaOwner(m, "tx", fault) ELSE m
      [] op = "Update" /\ pc = 4 -> readDataCatalogSchema(m, fault)
      [] op = "Update" /\ pc = 5 ->
            IF m.res = "run" THEN Finish(txCommit(m, fault))
            ELSE IF m.log[Len(m.log)].ev = "READ" THEN txRollback(m)
            ELSE m
      [] op = "Delete" /\ pc = 1 ->
            [resourceDataCatalogSchemaDelete(m.d, m.cat, m.nextOid, fault)
               EXCEPT !.txcat = m.txcat]

\* what the framework keeps of a returned call
Kept(op, m, old, was) ==
    [d       |-> IF op = "Update" /\ m.res = "panic" THEN old ELSE m.d,
     tracked |-> CASE op = "Create" -> (m.d.id # 0 /\ m.res # "panic")
                   [] op = "Delete" -> (m.res # "ok")
                   [] OTHER         -> was,
     res     |-> m.res]

\* the same call run in one piece
Whole(op, old, d0, cat, nOid, fault) ==
    CASE op = "Create" -> resourceDataCatalogSchemaCreate(d0, cat, nOid, fault)
      [] op = "Update" -> resourceDataCatalogSchemaUpdate(old, d0, cat, nOid, fault)
      [] op = "Delete" -> resourceDataCatalogSchemaDelete(d0, cat, nOid, fault)

RECURSIVE SumCalls(_)
SumCalls(S) ==
    IF S = {} THEN 0
    ELSE LET o == CHOOSE x \in S : TRUE IN run[o].calls + SumCalls(S \ {o})

CallsMade == SumCalls(Objects)

\* the objects whose creation statement is still to be issued
Creating == {o \in Objects : run[o].op = "Create" /\ run[o].pc = 1}

InitConc ==
    /\ catalog = EmptyCat
    /\ nextOid = 1
    /\ d = EmptyData
    /\ tracked = FALSE
    /\ tx = NoTx
    /\ log = <<>>
    /\ last = NoCall
    /\ run = [o \in Objects |-> IdleObject]

\* the host enters a handler of an idle object
Enter(o, op, d0, sd0, fault) ==
    \E ms \in {Whole(op, run[o].sh.d, sd0, run[o].sh.cat, run[o].sh.nextOid, fault)} :
        /\ CallsMade < MaxCalls
        /\ Issued(ms, fault)
        /\ run' = [run EXCEPT ![o].pc = 1, ![o].calls = @ + 1, ![o].op = op, ![o].old = run[o].d,
                              ![o].fault = fault, ![o].pend = NoPend,
                              ![o].m = Strip(NewCall(d0, EmptyCat, 1)),
                              ![o].sh = Kept(op, ms, run[o].sh.d, run[o].sh.tracked)
                                           @@ [cat |-> ms.cat, nextOid |-> ms.nextOid]]
        /\ UNCHANGED <<catalog, nextOid, d, tracked, tx, log, last>>

ConcCreate ==
    \E o \in Objects : \E name \in ObjNames[o], owner \in ConcOwners, fault \in ConcFaults :
        /\ run[o].pc = 0 /\ ~run[o].tracked
        /\ nextOid + Cardinality(Creating) <= MaxOid
        /\ Enter(o, "Create",
                 NewResourceData(0, name, owner, "gluedb", "arn_r", FALSE),
                 NewResourceData(0, name, owner, "gluedb", "arn_r", FALSE), fault)

ConcUpdate ==
    \E o \in Objects : \E name \in ObjNames[o], owner \in ConcOwners \ {0}, fault \in ConcFaults :
        /\ run[o].pc = 0 /\ run[o].tracked
        /\ [run[o].d EXCEPT !.schema_name = name, !.owner = owner] # run[o].d
        /\ Enter(o, "Update",
                 [run[o].d EXCEPT !.schema_name = name, !.owner = owner],
                 [run[o].sh.d EXCEPT !.schema_name = name, !.owner = owner], fault)

ConcDelete ==
    \E o \in Objects :
        /\ run[o].pc = 0 /\ run[o].tracked
        /\ Enter(o, "Delete", run[o].d, run[o].sh.d, "none")

\* the handler of o issues its next statement
ConcStep ==
    \E o \in Objects :
        /\ run[o].pc \in 1..NSteps(run[o].op)
        /\ \E m \in {Statement(run[o].op, run[o].pc,
                               [run[o].m EXCEPT !.cat = catalog,
                                                !.txcat = Overlay(catalog, run[o].pend),
                                                !.nextOid = nextOid],
                               run[o].old, run[o].fault)} :
              /\ catalog' = m.cat
              /\ nextOid' = m.nextOid
              /\ run' = [run EXCEPT ![o].pc = @ + 1, ![o].m = Strip(m),
                                    ![o].pend = Pending(m.txcat, m.cat)]
        /\ UNCHANGED <<d, tracked, tx, log, last>>

\* the handler of o returns to the framework
ConcReturn ==
    \E o \in Objects :
        /\ run[o].pc = NSteps(run[o].op) + 1
        /\ run' = [run EXCEPT ![o] =
                      Kept(run[o].op, run[o].m, run[o].old, run[o].tracked)
                         @@ [calls |-> run[o].calls, pc |-> 0, op |-> "",
                             old |-> EmptyData, fault |-> "none",
                             m |-> IdleCall, pend |-> NoPend, sh |-> run[o].sh]]
        /\ UNCHANGED <<catalog, nextOid, d, tracked, tx, log, last>>

NextConc ==
    \/ ConcCreate
    \/ ConcUpdate
    \/ ConcDelete
    \/ ConcStep
    \/ ConcReturn

SpecConc == InitConc /\ [][NextConc]_vars

\* the schemas of object o in a catalog, whatever their oids
OwnRows(cat, o) == {cat[i] : i \in {j \in Oids : cat[j].nspname \in ObjNames[o]}}

RowOf(cat, id) == IF id \in Oids THEN cat[id] ELSE NoRow

\* C15: whenever an object is idle, its local state (attributes, whether it
\* holds an identifier, whether it is tracked, the last outcome) and its
\* server-side state (its schemas, and the row of its identifier) are those
\* reached when its calls are run alone one after the other; identifiers
\* are compared up to the oid values the warehouse hands out.
C15_InterleavingEqualsSequential ==
    \A o \in Objects : run[o].pc = 0 =>
        /\ Attrs(run[o].d) = Attrs(run[o].sh.d)
        /\ (run[o].d.id = 0) <=> (run[o].sh.d.id = 0)
        /\ run[o].tracked = run[o].sh.tracked
        /\ run[o].res = run[o].sh.res
        /\ OwnRows(catalog, o) = OwnRows(run[o].sh.cat, o)
        /\ RowOf(catalog, run[o].d.id) = RowOf(run[o].sh.cat, run[o].sh.d.id)

\* A's Create has returned with the second oid while B's Create, whose
\* creation statement came first, is still in flight
C15_Witness ==
    /\ run["A"].pc = 0 /\ run["A"].tracked /\ run["A"].d.id = 2
    /\ run["B"].op = "Create" /\ run["B"].pc > 1
    /\ catalog[1].nspname \in ObjNames["B"]

====
